---- MODULE Spec2Model ----
(***************************************************************************)
(* Model of CoinFilter (src/main.py): the pipeline run() =                 *)
(*   fetch_pumpfun_coins -> fetch_dexscreener_tokens -> analyze_gmgn_ai.   *)
(*                                                                         *)
(* JSON objects are functions from field names to values; a field the      *)
(* upstream left out is a name outside DOMAIN.  A Python exception that    *)
(* leaves run() is the control state "raised" with its class in `error`.   *)
(* Lists of coins hold references: migrated_coins is a sequence of         *)
(* positions of coins_data.  Time is counted in hours.                     *)
(***************************************************************************)
EXTENDS Integers, Sequences, FiniteSets, TLC

VARIABLES
    filters,          \* self.filters
    use_rocker_api,   \* self.use_rocker_api
    seed,             \* the blacklist as configured (history, never written)
    blacklist,        \* self.blacklist
    coins_data,       \* self.coins_data
    migrated_coins,   \* run(): migrated_coins, positions of coins_data
    filtered_tokens,  \* fetch_dexscreener_tokens: filtered_tokens
    analyzed_tokens,  \* analyze_gmgn_ai: analyzed_tokens
    token_data,       \* fetch_dexscreener_tokens: token_data of the iteration
    response,         \* the HTTP response last received
    pc,               \* control point of run()
    k,                \* index of the running for loop
    now,              \* last reading of datetime.now()
    error,            \* class of the exception that left run()
    queries,          \* per coin position, the services queried (history)
    accepted,         \* coin positions filter_dexscreener_data accepted
                      \* (history)
    bundled,          \* coin positions for which verify_contract saw
                      \* status "Good" with isBundledSupply (history)
    snapshot,         \* the upstream answers, when they are fixed beforehand
    run,              \* number of the running call of run()
    first_result,     \* what the first call of run() returned (history)
    csv               \* rows of filtered_coins.csv, <<>> while not written

vars == <<filters, use_rocker_api, seed, blacklist, coins_data, migrated_coins,
          filtered_tokens, analyzed_tokens, token_data, response, pc, k, now,
          error, queries, accepted, bundled, snapshot, run, first_result,
          csv>>

-----------------------------------------------------------------------------
(* Bounds and input alphabets *)

MaxCoins == 2
MaxRuns == 2

Symbols == {"FOO", "BAR"}
Developers == {"dev1", "dev2"}
Clock == 10 .. 11

NoError == "none"
NoDict == <<>>

Has(d, key) == key \in DOMAIN d

\* dict.get(key, default)
get(d, key, default) == IF Has(d, key) THEN d[key] ELSE default

\* the dict d without the field key
Without(d, key) == [f \in DOMAIN d \ {key} |-> d[f]]

\* the dict d with d[key] = val
With(d, key, val) == [f \in DOMAIN d \cup {key} |-> IF f = key THEN val ELSE d[f]]

\* x in lst, for a Python list
In(x, lst) == \E n \in 1 .. Len(lst) : lst[n] = x

FilterConfigs ==
    { [pair_age_hours |-> 2, min_1h_txns |-> 2, min_5m_txns |-> 1,
       tweetscout_score_threshold |-> 450] }

\* configurations that ask for no transaction at all
ZeroTxnsConfigs ==
    { [pair_age_hours |-> 2, min_1h_txns |-> 0, min_5m_txns |-> 0,
       tweetscout_score_threshold |-> 450] }

BlacklistSeeds ==
    { [memecoins |-> <<>>, developers |-> <<>>],
      [memecoins |-> <<"BAR">>, developers |-> <<"dev2">>] }

\* Coins the listing endpoint may return at position i: well-formed migrated
\* coins, coins that are not migrated, and migrated coins lacking one field.
WellFormedCoin(i, s, d) ==
    [id |-> i, symbol |-> s, status |-> "migrated", developer |-> d]

CoinsAt(i) ==
    { WellFormedCoin(i, s, d) : s \in Symbols, d \in Developers }
      \cup { [id |-> i, symbol |-> "FOO", status |-> "new", developer |-> "dev1"],
             Without(WellFormedCoin(i, "FOO", "dev1"), "status"),
             Without(WellFormedCoin(i, "FOO", "dev1"), "symbol"),
             Without(WellFormedCoin(i, "FOO", "dev1"), "id"),
             Without(WellFormedCoin(i, "FOO", "dev1"), "developer") }

RawLists ==
    UNION { { c \in [1 .. n -> UNION { CoinsAt(i) : i \in 1 .. n }] :
                \A i \in 1 .. n : c[i] \in CoinsAt(i) } : n \in 0 .. MaxCoins }

\* pairAge strings: a timestamp in the format "%Y-%m-%dT%H:%M:%S", or not
Timestamp(h) == [wellformed |-> TRUE, hour |-> h]
BadTimestamp == [wellformed |-> FALSE, hour |-> 0]

\* Token records the detail endpoint may return for the coin at position i:
\* the record of a fresh, busy pair, and records differing from it in one
\* field.
FreshToken(i, s, d) ==
    [id |-> i, symbol |-> s, contract |-> "0xC", developer |-> d,
     pairAge |-> Timestamp(9), oneHourTxns |-> 2, fiveMinTxns |-> 1]

TokensAt(i) ==
    LET c == coins_data[i]
        s == get(c, "symbol", "FOO")
        d == get(c, "developer", "dev1")
        t == FreshToken(i, s, d)
    IN  { t }
          \cup { With(t, "symbol", x) : x \in Symbols }
          \cup { With(t, "developer", x) : x \in Developers }
          \cup { Without(t, f) : f \in DOMAIN t }
          \cup { With(t, "pairAge", p) :
                    p \in { Timestamp(8), Timestamp(5), BadTimestamp } }
          \cup { With(t, "oneHourTxns", 1), With(t, "fiveMinTxns", 0) }

VolumeAnswers ==
    { [status_code |-> 500, json |-> NoDict],
      [status_code |-> 200, json |-> NoDict],
      [status_code |-> 200, json |-> [isValid |-> TRUE]],
      [status_code |-> 200, json |-> [isValid |-> FALSE]] }

RugAnswers ==
    { [status_code |-> 500, json |-> NoDict],
      [status_code |-> 200, json |-> NoDict],
      [status_code |-> 200, json |-> [isBundledSupply |-> TRUE]] }
      \cup { [status_code |-> 200, json |-> [status |-> st]] :
                st \in {"Good", "Bad"} }
      \cup { [status_code |-> 200,
              json |-> [status |-> st, isBundledSupply |-> b]] :
                st \in {"Good", "Bad"}, b \in BOOLEAN }

ScoreAnswers ==
    { [status_code |-> 500, json |-> NoDict],
      [status_code |-> 200, json |-> NoDict] }
      \cup { [status_code |-> 200, json |-> [score |-> s]] : s \in {450, 451} }

HolderSeqs ==
    { <<>>, <<1>>, <<2>>, <<3>>, <<1, 1>>,
      <<1, 0, 0, 0, 0, 1>>, <<1, 0, 0, 0, 1, 1>> }

HolderAnswers ==
    { [status_code |-> 500, json |-> NoDict],
      [status_code |-> 200, json |-> [holders |-> <<1>>]],
      [status_code |-> 200, json |-> [totalSupply |-> 10]],
      [status_code |-> 200, json |-> [totalSupply |-> 0, holders |-> <<>>]],
      [status_code |-> 200, json |-> [totalSupply |-> 0, holders |-> <<1>>]] }
      \cup { [status_code |-> 200,
              json |-> [totalSupply |-> 10, holders |-> h]] : h \in HolderSeqs }

-----------------------------------------------------------------------------
(* The methods of CoinFilter, as functions of what they read.  Each returns *)
(* a record: ret is the returned value and error the exception raised       *)
(* (NoError when the method returns).                                       *)

Returns(v) == [ret |-> v, error |-> NoError]
Raises(e) == [ret |-> FALSE, error |-> e]

\* the positions 1..n in order
Positions(n) == [i \in 1 .. n |-> i]

\* coin.get("status") == "migrated" and coin["symbol"] not in memecoins
IsMigratedCoin(coin) ==
    /\ get(coin, "status", "None") = "migrated"
    /\ ~In(coin.symbol, blacklist.memecoins)

\* the list comprehension of analyze_pumpfun_data over coins; coin["symbol"]
\* is read for every coin whose status is "migrated"
analyze_pumpfun_data(coins) ==
    IF \E i \in 1 .. Len(coins) :
          get(coins[i], "status", "None") = "migrated" /\ ~Has(coins[i], "symbol")
    THEN Raises("KeyError")
    ELSE [ret |-> SelectSeq(Positions(Len(coins)),
                            LAMBDA i : IsMigratedCoin(coins[i])),
          error |-> NoError]

\* datetime.strptime(s, "%Y-%m-%dT%H:%M:%S")
strptime(s) ==
    IF s.wellformed THEN [ret |-> s.hour, error |-> NoError]
    ELSE [ret |-> 0, error |-> "ValueError"]

\* filter_dexscreener_data, datetime_now being the reading of datetime.now()
filter_dexscreener_data(token, developer_address, datetime_now) ==
    IF ~Has(token, "pairAge") THEN Returns(FALSE)
    ELSE IF strptime(token.pairAge).error # NoError
    THEN Raises(strptime(token.pairAge).error)
    ELSE LET pair_age == datetime_now - strptime(token.pairAge).ret
             one_hour_txns == get(token, "oneHourTxns", 0)
             five_min_txns == get(token, "fiveMinTxns", 0)
         IN  Returns(/\ pair_age <= filters.pair_age_hours
                     /\ one_hour_txns >= filters.min_1h_txns
                     /\ five_min_txns >= filters.min_5m_txns
                     /\ ~In(developer_address, blacklist.developers))

\* verify_volume that takes an answer without success for a valid volume
verify_volume_fail_open(token, resp) ==
    IF ~Has(token, "symbol")
    THEN [ret |-> FALSE, error |-> "KeyError", asked |-> FALSE]
    ELSE IF use_rocker_api
    THEN IF ~Has(token, "id")
         THEN [ret |-> FALSE, error |-> "KeyError", asked |-> FALSE]
         ELSE IF resp.status_code = 200
         THEN [ret |-> get(resp.json, "isValid", FALSE), error |-> NoError,
               asked |-> TRUE]
         ELSE [ret |-> TRUE, error |-> NoError, asked |-> TRUE]
    ELSE [ret |-> FALSE, error |-> "AttributeError", asked |-> FALSE]

\* verify_volume; resp is the answer of the volume oracle, read only when
\* the request is sent (asked).  CoinFilter defines no custom_volume_check.
verify_volume(token, resp) ==
    IF ~Has(token, "symbol")
    THEN [ret |-> FALSE, error |-> "KeyError", asked |-> FALSE]
    ELSE IF use_rocker_api
    THEN IF ~Has(token, "id")
         THEN [ret |-> FALSE, error |-> "KeyError", asked |-> FALSE]
         ELSE IF resp.status_code = 200
         THEN [ret |-> get(resp.json, "isValid", FALSE), error |-> NoError,
               asked |-> TRUE]
         ELSE [ret |-> FALSE, error |-> NoError, asked |-> TRUE]
    ELSE [ret |-> FALSE, error |-> "AttributeError", asked |-> FALSE]

\* verify_contract testing isBundledSupply before the status
verify_contract_bundled_first(token, resp) ==
    LET out(r, e, a, b) ==
            [ret |-> r, error |-> e, asked |-> a, blacklist |-> b]
    IN  IF ~Has(token, "symbol") \/ ~Has(token, "contract")
        THEN out(FALSE, "KeyError", FALSE, blacklist)
        ELSE IF resp.status_code # 200
        THEN out(FALSE, NoError, TRUE, blacklist)
        ELSE IF get(resp.json, "isBundledSupply", FALSE)
        THEN LET b1 == [blacklist EXCEPT
                          !.memecoins = Append(@, token.symbol)]
             IN  IF ~Has(token, "developer")
                 THEN out(FALSE, "KeyError", TRUE, b1)
                 ELSE out(FALSE, NoError, TRUE,
                          [b1 EXCEPT !.developers = Append(@, token.developer)])
        ELSE IF get(resp.json, "status", "None") # "Good"
        THEN out(FALSE, NoError, TRUE, blacklist)
        ELSE out(TRUE, NoError, TRUE, blacklist)

\* verify_contract with assignment in place of append: a bundled supply
\* replaces the blacklist's lists by the one new entry
verify_contract_replacing(token, resp) ==
    LET out(r, e, a, b) ==
            [ret |-> r, error |-> e, asked |-> a, blacklist |-> b]
    IN  IF ~Has(token, "symbol") \/ ~Has(token, "contract")
        THEN out(FALSE, "KeyError", FALSE, blacklist)
        ELSE IF resp.status_code # 200
        THEN out(FALSE, NoError, TRUE, blacklist)
        ELSE IF get(resp.json, "status", "None") # "Good"
        THEN out(FALSE, NoError, TRUE, blacklist)
        ELSE IF get(resp.json, "isBundledSupply", FALSE)
        THEN LET b1 == [blacklist EXCEPT !.memecoins = <<token.symbol>>]
             IN  IF ~Has(token, "developer")
                 THEN out(FALSE, "KeyError", TRUE, b1)
                 ELSE out(FALSE, NoError, TRUE,
                          [b1 EXCEPT !.developers = <<token.developer>>])
        ELSE out(TRUE, NoError, TRUE, blacklist)

\* verify_contract without line 100: a bundled supply blacklists the symbol
\* and leaves the developers as they are
verify_contract_symbol_only(token, resp) ==
    LET out(r, e, a, b) ==
            [ret |-> r, error |-> e, asked |-> a, blacklist |-> b]
    IN  IF ~Has(token, "symbol") \/ ~Has(token, "contract")
        THEN out(FALSE, "KeyError", FALSE, blacklist)
        ELSE IF resp.status_code # 200
        THEN out(FALSE, NoError, TRUE, blacklist)
        ELSE IF get(resp.json, "status", "None") # "Good"
        THEN out(FALSE, NoError, TRUE, blacklist)
        ELSE IF get(resp.json, "isBundledSupply", FALSE)
        THEN out(FALSE, NoError, TRUE,
                 [blacklist EXCEPT !.memecoins = Append(@, token.symbol)])
        ELSE out(TRUE, NoError, TRUE, blacklist)

\* verify_contract that blacklists whatever the anti-rug service does not
\* report as "Good", bundled or not
verify_contract_blacklists_bad(token, resp) ==
    LET out(r, e, a, b) ==
            [ret |-> r, error |-> e, asked |-> a, blacklist |-> b]
        listed == [blacklist EXCEPT !.memecoins = Append(@, token.symbol)]
    IN  IF ~Has(token, "symbol") \/ ~Has(token, "contract")
        THEN out(FALSE, "KeyError", FALSE, blacklist)
        ELSE IF resp.status_code # 200
        THEN out(FALSE, NoError, TRUE, blacklist)
        ELSE IF get(resp.json, "status", "None") # "Good"
                  \/ get(resp.json, "isBundledSupply", FALSE)
        THEN IF ~Has(token, "developer")
             THEN out(FALSE, "KeyError", TRUE, listed)
             ELSE out(FALSE, NoError, TRUE,
                      [listed EXCEPT !.developers = Append(@, token.developer)])
        ELSE out(TRUE, NoError, TRUE, blacklist)

\* verify_contract; resp is the answer of the anti-rug service.  blacklist is
\* the blacklist when the method ends, also when it ends by an exception.
verify_contract(token, resp) ==
    LET out(r, e, a, b) ==
            [ret |-> r, error |-> e, asked |-> a, blacklist |-> b]
    IN  IF ~Has(token, "symbol") \/ ~Has(token, "contract")
        THEN out(FALSE, "KeyError", FALSE, blacklist)
        ELSE IF resp.status_code # 200
        THEN out(FALSE, NoError, TRUE, blacklist)
        ELSE IF get(resp.json, "status", "None") # "Good"
        THEN out(FALSE, NoError, TRUE, blacklist)
        ELSE IF get(resp.json, "isBundledSupply", FALSE)
        THEN LET b1 == [blacklist EXCEPT
                          !.memecoins = Append(@, token.symbol)]
             IN  IF ~Has(token, "developer")
                 THEN out(FALSE, "KeyError", TRUE, b1)
                 ELSE out(FALSE, NoError, TRUE,
                          [b1 EXCEPT !.developers = Append(@, token.developer)])
        ELSE out(TRUE, NoError, TRUE, blacklist)

\* lst.append(item) run twice
append_twice(lst, item) == Append(Append(lst, item), item)

\* lst.insert(0, item) in place of lst.append(item)
append_front(lst, item) == <<item>> \o lst

\* lst.append(item)
append(lst, item) == Append(lst, item)

\* check_social_media with score >= threshold for "Good"
check_social_media_inclusive(token_symbol, resp) ==
    IF resp.status_code = 200
    THEN IF get(resp.json, "score", 0) >= filters.tweetscout_score_threshold
         THEN "Good" ELSE "Medium"
    ELSE "Unknown"

\* check_social_media
check_social_media(token_symbol, resp) ==
    IF resp.status_code = 200
    THEN IF get(resp.json, "score", 0) > filters.tweetscout_score_threshold
         THEN "Good" ELSE "Medium"
    ELSE "Unknown"

RECURSIVE sum(_)
sum(s) == IF s = <<>> THEN 0 ELSE Head(s) + sum(Tail(s))

\* s[:n]
Slice(s, n) == SubSeq(s, 1, IF Len(s) < n THEN Len(s) ELSE n)

TopHolders == 5
RatioDenominator == 5

\* a / b <= 0.2 in place of a / b < 0.2
BelowRatio_lenient(a, b) ==
    IF b > 0 THEN RatioDenominator * a <= b ELSE RatioDenominator * a >= b

\* a / b < 0.2, the quotient being the exact one (0.2 = 1 / RatioDenominator)
BelowRatio(a, b) ==
    IF b > 0 THEN RatioDenominator * a < b ELSE RatioDenominator * a > b

\* evaluate_holders
evaluate_holders(holder_data) ==
    IF ~Has(holder_data, "totalSupply") THEN Returns(FALSE)
    ELSE IF ~Has(holder_data, "holders") THEN Returns(FALSE)
    ELSE IF holder_data.totalSupply = 0 THEN Raises("ZeroDivisionError")
    ELSE Returns(BelowRatio(sum(Slice(holder_data.holders, TopHolders)),
                            holder_data.totalSupply))

-----------------------------------------------------------------------------
(* The run *)

NoResponse == [status_code |-> 0, json |-> NoDict]

\* the answers are not fixed: every request may get any answer
NoSnapshot == [fixed |-> FALSE]

\* The answers a request may get: any answer of the service, or the answer
\* of the snapshot when the upstream is a fixed snapshot.
ListingAnswers ==
    IF snapshot.fixed THEN { snapshot.listing }
    ELSE { [status_code |-> 500, json |-> <<>>] }
           \cup { [status_code |-> 200, json |-> l] : l \in RawLists }

TokenAnswers(i) ==
    IF snapshot.fixed THEN { snapshot.token[i] }
    ELSE { [status_code |-> 500, json |-> NoDict] }
           \cup { [status_code |-> 200, json |-> t] : t \in TokensAt(i) }

ClockReadings(i) ==
    IF snapshot.fixed THEN { snapshot.clock[i] } ELSE { t \in Clock : t >= now }

VolumeAnswersAt(i) ==
    IF snapshot.fixed THEN { snapshot.volume[i] } ELSE VolumeAnswers

RugAnswersAt(i) ==
    IF snapshot.fixed THEN { snapshot.rug[i] } ELSE RugAnswers

ScoreAnswersAt(i) ==
    IF snapshot.fixed THEN { snapshot.score[i] } ELSE ScoreAnswers

HolderAnswersAt(i) ==
    IF snapshot.fixed THEN { snapshot.holders[i] } ELSE HolderAnswers

\* the state after CoinFilter(), whatever the upstream
Constructed ==
    /\ use_rocker_api \in BOOLEAN
    /\ seed \in BlacklistSeeds
    /\ blacklist = seed
    /\ coins_data = <<>>
    /\ migrated_coins = <<>>
    /\ filtered_tokens = <<>>
    /\ analyzed_tokens = <<>>
    /\ token_data = NoDict
    /\ response = NoResponse
    /\ pc = "start"
    /\ k = 1
    /\ now = 10
    /\ error = NoError
    /\ queries = <<>>
    /\ accepted = {}
    /\ bundled = {}
    /\ run = 1
    /\ first_result = <<>>
    /\ csv = <<>>

Init ==
    /\ Constructed
    /\ filters \in FilterConfigs
    /\ snapshot = NoSnapshot

InitZeroTxns ==
    /\ Constructed
    /\ filters \in ZeroTxnsConfigs
    /\ snapshot = NoSnapshot

config == <<filters, use_rocker_api, seed, snapshot>>

\* what only the entry point and a further call of run() write
session == <<run, first_result, csv>>

\* an exception leaves run()
Raise(e) ==
    /\ pc' = "raised"
    /\ error' = e

\* the coin of the running iteration of fetch_dexscreener_tokens
pos == migrated_coins[k]
coin == coins_data[pos]

\* the for loop of fetch_dexscreener_tokens goes on to its next coin
NextCoin ==
    /\ pc' = "dex"
    /\ k' = k + 1
    /\ token_data' = NoDict
    /\ error' = error

Asked(service) == queries' = [queries EXCEPT ![pos] = Append(@, service)]

\* any answer taken for a success
is_success_always(resp) == TRUE

\* response.status_code == 200
is_success(resp) == resp.status_code = 200

\* run() calls fetch_pumpfun_coins, which calls analyze_pumpfun_data
fetch_pumpfun_coins ==
    /\ pc = "start"
    /\ \E resp \in ListingAnswers :
          /\ response' = resp
          /\ IF is_success(resp)
             THEN /\ coins_data' = resp.json
                  /\ queries' = [i \in 1 .. Len(resp.json) |-> <<>>]
                  /\ IF analyze_pumpfun_data(resp.json).error = NoError
                     THEN /\ migrated_coins' = analyze_pumpfun_data(resp.json).ret
                          /\ pc' = "dex"
                          /\ error' = error
                     ELSE /\ Raise(analyze_pumpfun_data(resp.json).error)
                          /\ UNCHANGED migrated_coins
             ELSE /\ Raise("Exception")
                  /\ UNCHANGED <<coins_data, migrated_coins, queries>>
    /\ UNCHANGED <<config, session, blacklist, filtered_tokens, analyzed_tokens,
                   token_data, k, now, accepted, bundled>>

\* fetch_dexscreener_tokens, lines 48-51: the token detail request
DexFetch ==
    /\ pc = "dex"
    /\ k <= Len(migrated_coins)
    /\ IF ~Has(coin, "id")
       THEN /\ Raise("KeyError")
            /\ UNCHANGED <<response, token_data, k, queries>>
       ELSE \E resp \in TokenAnswers(pos) :
              /\ response' = resp
              /\ Asked("token")
              /\ IF resp.status_code = 200
                 THEN /\ token_data' = resp.json
                      /\ pc' = "market"
                      /\ UNCHANGED <<k, error>>
                 ELSE NextCoin
    /\ UNCHANGED <<config, session, blacklist, coins_data, migrated_coins,
                   filtered_tokens, analyzed_tokens, now, accepted, bundled>>

\* fetch_dexscreener_tokens, line 52: filter_dexscreener_data
MarketFilter ==
    /\ pc = "market"
    /\ IF ~Has(coin, "developer")
       THEN /\ Raise("KeyError")
            /\ UNCHANGED <<token_data, k, now, accepted>>
       ELSE \E t \in ClockReadings(pos) :
              /\ now' = t
              /\ LET r == filter_dexscreener_data(token_data, coin.developer, t)
                 IN  IF r.error # NoError
                     THEN /\ Raise(r.error)
                          /\ UNCHANGED <<token_data, k, accepted>>
                     ELSE IF r.ret
                     THEN /\ pc' = "volume"
                          /\ accepted' = accepted \cup {pos}
                          /\ UNCHANGED <<token_data, k, error>>
                     ELSE NextCoin /\ UNCHANGED accepted
    /\ UNCHANGED <<config, session, blacklist, coins_data, migrated_coins,
                   filtered_tokens, analyzed_tokens, response, queries, bundled>>

\* fetch_dexscreener_tokens, line 53, left operand: verify_volume
VerifyVolume ==
    /\ pc = "volume"
    /\ \E resp \in VolumeAnswersAt(pos) :
          LET r == verify_volume(token_data, resp)
          IN  /\ IF r.asked
                 THEN response' = resp /\ Asked("volume")
                 ELSE UNCHANGED <<response, queries>>
              /\ IF r.error # NoError
                 THEN Raise(r.error) /\ UNCHANGED <<token_data, k>>
                 ELSE IF r.ret
                 THEN pc' = "contract" /\ UNCHANGED <<token_data, k, error>>
                 ELSE NextCoin
    /\ UNCHANGED <<config, session, blacklist, coins_data, migrated_coins,
                   filtered_tokens, analyzed_tokens, now, accepted, bundled>>

\* the anti-rug answer reports status "Good" and a bundled supply
SawBundled(resp) ==
    /\ resp.status_code = 200
    /\ get(resp.json, "status", "None") = "Good"
    /\ get(resp.json, "isBundledSupply", FALSE)

\* fetch_dexscreener_tokens, line 53, right operand: verify_contract
VerifyContract ==
    /\ pc = "contract"
    /\ \E resp \in RugAnswersAt(pos) :
          LET r == verify_contract(token_data, resp)
          IN  /\ IF r.asked
                 THEN /\ response' = resp
                      /\ Asked("rug")
                      /\ bundled' = IF SawBundled(resp)
                                    THEN bundled \cup {pos} ELSE bundled
                 ELSE UNCHANGED <<response, queries, bundled>>
              /\ blacklist' = r.blacklist
              /\ IF r.error # NoError
                 THEN Raise(r.error) /\ UNCHANGED <<token_data, k>>
                 ELSE IF r.ret
                 THEN pc' = "social" /\ UNCHANGED <<token_data, k, error>>
                 ELSE NextCoin
    /\ UNCHANGED <<config, session, coins_data, migrated_coins, filtered_tokens,
                   analyzed_tokens, now, accepted>>

\* fetch_dexscreener_tokens, lines 54-56: check_social_media and the append
CheckSocialMedia ==
    /\ pc = "social"
    /\ \E resp \in ScoreAnswersAt(pos) :
          /\ response' = resp
          /\ Asked("social")
          /\ filtered_tokens' =
                append(filtered_tokens,
                       [coin |-> pos,
                        data |-> With(token_data, "social_media_status",
                                      check_social_media(coin.symbol, resp))])
    /\ NextCoin
    /\ UNCHANGED <<config, session, blacklist, coins_data, migrated_coins,
                   analyzed_tokens, now, accepted, bundled>>

\* fetch_dexscreener_tokens returns and run() calls analyze_gmgn_ai
DexReturn ==
    /\ pc = "dex"
    /\ k > Len(migrated_coins)
    /\ pc' = "gmgn"
    /\ k' = 1
    /\ UNCHANGED <<config, session, blacklist, coins_data, migrated_coins,
                   filtered_tokens, analyzed_tokens, token_data, response,
                   now, error, queries, accepted, bundled>>

\* one iteration of the for loop of analyze_gmgn_ai
AnalyzeGmgn ==
    /\ pc = "gmgn"
    /\ k <= Len(filtered_tokens)
    /\ LET token == filtered_tokens[k]
       IN  IF ~Has(token.data, "id")
           THEN /\ Raise("KeyError")
                /\ UNCHANGED <<response, analyzed_tokens, k, queries>>
           ELSE \E resp \in HolderAnswersAt(token.coin) :
                  /\ response' = resp
                  /\ queries' = [queries EXCEPT
                                   ![token.coin] = Append(@, "holders")]
                  /\ IF resp.status_code # 200
                     THEN /\ k' = k + 1
                          /\ UNCHANGED <<analyzed_tokens, pc, error>>
                     ELSE IF evaluate_holders(resp.json).error # NoError
                     THEN /\ Raise(evaluate_holders(resp.json).error)
                          /\ UNCHANGED <<analyzed_tokens, k>>
                     ELSE /\ analyzed_tokens' =
                                IF evaluate_holders(resp.json).ret
                                THEN append(analyzed_tokens, token)
                                ELSE analyzed_tokens
                          /\ k' = k + 1
                          /\ UNCHANGED <<pc, error>>
    /\ UNCHANGED <<config, session, blacklist, coins_data, migrated_coins,
                   filtered_tokens, token_data, now, accepted, bundled>>

\* analyze_gmgn_ai returns and run() returns analyzed_tokens
Return ==
    /\ pc = "gmgn"
    /\ k > Len(filtered_tokens)
    /\ pc' = "returned"
    /\ UNCHANGED <<config, session, blacklist, coins_data, migrated_coins,
                   filtered_tokens, analyzed_tokens, token_data, response,
                   k, now, error, queries, accepted, bundled>>

\* the entry point, lines 158-163: filtered_coins.csv is written when run()
\* returned at least one token
main ==
    /\ pc = "returned"
    /\ pc' = "exited"
    /\ csv' = IF analyzed_tokens # <<>>
              THEN [n \in 1 .. Len(analyzed_tokens) |-> analyzed_tokens[n].data]
              ELSE csv
    /\ UNCHANGED <<config, run, first_result, blacklist, coins_data,
                   migrated_coins, filtered_tokens, analyzed_tokens,
                   token_data, response, k, now, error, queries, accepted,
                   bundled>>

Next ==
    \/ fetch_pumpfun_coins
    \/ DexFetch
    \/ MarketFilter
    \/ VerifyVolume
    \/ VerifyContract
    \/ CheckSocialMedia
    \/ DexReturn
    \/ AnalyzeGmgn
    \/ Return
    \/ main

Spec == Init /\ [][Next]_vars

\* the runs of a configuration that asks for no transaction
SpecZeroTxns == InitZeroTxns /\ [][Next]_vars

-----------------------------------------------------------------------------
(* Runs against a fixed upstream snapshot, and run() called again on the    *)
(* same CoinFilter                                                          *)

Good(bundle) ==
    [status_code |-> 200, json |-> [status |-> "Good", isBundledSupply |-> bundle]]

RugSnapshots ==
    { Good(FALSE), Good(TRUE), [status_code |-> 200, json |-> [status |-> "Bad"]] }

HolderSnapshots ==
    { [status_code |-> 200, json |-> [totalSupply |-> 10, holders |-> h]] :
        h \in { <<1>>, <<3>> } }

VolumeSnapshots ==
    { [status_code |-> 200, json |-> [isValid |-> TRUE]],
      [status_code |-> 500, json |-> NoDict] }

\* Snapshots of n well-formed coins: the token record is a fresh one with
\* the coin's symbol, the score is above the threshold, the clock stands
\* still; the developer of the token record, the volume, the anti-rug and
\* the holder answers vary.
SnapshotsOf(n) ==
    { [fixed |-> TRUE,
       listing |-> [status_code |-> 200,
                    json |-> [i \in 1 .. n |-> WellFormedCoin(i, s[i], d[i])]],
       token |-> [i \in 1 .. n |->
                    [status_code |-> 200, json |-> FreshToken(i, s[i], td[i])]],
       clock |-> [i \in 1 .. n |-> 10],
       volume |-> v,
       rug |-> r,
       score |-> [i \in 1 .. n |-> [status_code |-> 200, json |-> [score |-> 451]]],
       holders |-> h] :
        s \in [1 .. n -> Symbols], d \in [1 .. n -> Developers],
        td \in [1 .. n -> Developers], v \in [1 .. n -> VolumeSnapshots],
        r \in [1 .. n -> RugSnapshots], h \in [1 .. n -> HolderSnapshots] }

Snapshots == UNION { SnapshotsOf(n) : n \in 1 .. MaxCoins }

InitSnapshot ==
    /\ Constructed
    /\ filters \in FilterConfigs \cup ZeroTxnsConfigs
    /\ snapshot \in Snapshots

\* run() is called again on the same object: the attributes stay, the
\* locals of the first call are gone, the upstream answers as before
Rerun ==
    /\ pc = "returned"
    /\ run < MaxRuns
    /\ run' = run + 1
    /\ first_result' = IF run = 1 THEN analyzed_tokens ELSE first_result
    /\ pc' = "start"
    /\ k' = 1
    /\ now' = 10
    /\ migrated_coins' = <<>>
    /\ filtered_tokens' = <<>>
    /\ analyzed_tokens' = <<>>
    /\ token_data' = NoDict
    /\ response' = NoResponse
    /\ queries' = <<>>
    /\ accepted' = {}
    /\ bundled' = {}
    /\ UNCHANGED <<config, csv, blacklist, coins_data, error>>

NextRerun == Next \/ Rerun

SpecRerun == InitSnapshot /\ [][NextRerun]_vars

-----------------------------------------------------------------------------
(* Properties *)

\* the coin positions of a list of token entries, in order
CoinsOf(tokens) == [n \in 1 .. Len(tokens) |-> tokens[n].coin]

Range(seq) == { seq[n] : n \in 1 .. Len(seq) }

Ended == pc \in {"returned", "raised"}

\* C1: once verify_contract has seen status "Good" with isBundledSupply for
\* the coin at position i, no coin after i with the same developer or the
\* same symbol is appended to filtered_tokens.
C1_BundledPoisonsLater ==
    \A i \in bundled : \A j \in Range(CoinsOf(filtered_tokens)) :
        j > i => /\ coins_data[j].developer # coins_data[i].developer
                 /\ coins_data[j].symbol # coins_data[i].symbol

\* C2: once the coin at position i, of developer d, is rejected for bundled
\* supply, d is in blacklist.developers, and no volume, anti-rug or sentiment
\* query is issued for a later coin of developer d.
C2_DeveloperRejectedByMarketFilter ==
    \A i \in bundled :
        /\ In(coins_data[i].developer, blacklist.developers)
        /\ \A j \in (i + 1) .. Len(coins_data) :
              (/\ Has(coins_data[j], "developer")
               /\ coins_data[j].developer = coins_data[i].developer)
                 => Range(queries[j]) \cap {"volume", "rug", "social"} = {}

\* C3: when filter_dexscreener_data is applied to a coin whose developer is
\* in blacklist.developers, the coin is dropped and the loop goes on to the
\* next coin, whatever the token record holds.
C3_BlacklistedDeveloperExcluded ==
    [][(/\ pc = "market"
        /\ Has(coin, "developer")
        /\ In(coin.developer, blacklist.developers))
          => /\ pc' = "dex"
             /\ k' = k + 1
             /\ filtered_tokens' = filtered_tokens]_vars

\* C4: once the listing request has succeeded, no exception leaves run():
\* the only exception that ends a run is the one of the failed listing
\* request.
C4_OnlySourceFetchAborts ==
    pc = "raised" => error = "Exception"

\* an iteration of analyze_gmgn_ai that received a holder snapshot
HolderStep ==
    /\ pc = "gmgn"
    /\ queries' # queries
    /\ response'.status_code = 200

FailClosedCase(holder_data) ==
    \/ ~Has(holder_data, "totalSupply")
    \/ holder_data.totalSupply = 0
    \/ Has(holder_data, "holders") /\ holder_data.holders = <<>>

\* C5: for a snapshot without totalSupply, with totalSupply 0 or with no
\* holder, evaluate_holders returns false: the token is not appended and no
\* exception is raised.
C5_HoldersFailClosed ==
    [][(HolderStep /\ FailClosedCase(response'.json))
          => /\ pc' = "gmgn"
             /\ k' = k + 1
             /\ analyzed_tokens' = analyzed_tokens]_vars

\* the sum of the balances at the places 1..n of holders
RECURSIVE Balance(_, _)
Balance(holders, n) ==
    IF n = 0 THEN 0
    ELSE Balance(holders, n - 1) + (IF n <= Len(holders) THEN holders[n] ELSE 0)

\* C6: for a snapshot with totalSupply > 0 and at least one holder, the token
\* is appended to analyzed_tokens iff five times the sum of its first five
\* balances is below totalSupply; otherwise it is dropped; no exception.
C6_HolderRatioBoundary ==
    [][(/\ HolderStep
        /\ Has(response'.json, "totalSupply")
        /\ Has(response'.json, "holders")
        /\ response'.json.totalSupply > 0
        /\ response'.json.holders # <<>>)
          => /\ pc' = "gmgn"
             /\ k' = k + 1
             /\ IF 5 * Balance(response'.json.holders, 5)
                      < response'.json.totalSupply
                THEN analyzed_tokens' = analyzed_tokens \o <<filtered_tokens[k]>>
                ELSE analyzed_tokens' = analyzed_tokens]_vars

\* a token with more than five holders passed on its first five balances
C6_Witness ==
    /\ pc = "gmgn"
    /\ k = 2
    /\ Len(analyzed_tokens) = 1
    /\ response.status_code = 200
    /\ Len(response.json.holders) > 5
    /\ 5 * sum(response.json.holders) >= response.json.totalSupply

NoDuplicates(seq) ==
    \A m, n \in 1 .. Len(seq) : seq[m] = seq[n] => m = n

\* C7: when run() returns, the returned candidates are among those the
\* Market Filter accepted, these among the output of analyze_pumpfun_data,
\* these among the raw list, and no list holds a candidate twice.
C7_MonotonicShrinking ==
    pc = "returned" =>
        /\ Range(CoinsOf(analyzed_tokens)) \subseteq accepted
        /\ Range(analyzed_tokens) \subseteq Range(filtered_tokens)
        /\ accepted \subseteq Range(migrated_coins)
        /\ Range(migrated_coins) \subseteq DOMAIN coins_data
        /\ NoDuplicates(CoinsOf(analyzed_tokens))
        /\ NoDuplicates(CoinsOf(filtered_tokens))
        /\ NoDuplicates(migrated_coins)

\* a completed run that returns one of the two candidates the Market Filter
\* accepted
C7_Witness ==
    /\ pc = "returned"
    /\ Len(migrated_coins) = 2
    /\ accepted = {1, 2}
    /\ Len(analyzed_tokens) = 1

Increasing(seq) ==
    \A m, n \in 1 .. Len(seq) : m < n => seq[m] < seq[n]

\* C8: in the output of every stage the candidates stand in the order of
\* the raw list.
C8_StableOrder ==
    /\ Increasing(migrated_coins)
    /\ Increasing(CoinsOf(filtered_tokens))
    /\ Increasing(CoinsOf(analyzed_tokens))

\* a completed run that returns two candidates
C8_Witness ==
    /\ pc = "returned"
    /\ Len(analyzed_tokens) = 2

\* C9: when the run has ended, every candidate that passed every filter,
\* the holder filter included, is in the result of run() with its social
\* label.
C9_PassingCandidateEmitted ==
    Ended =>
        \A n \in 1 .. Len(analyzed_tokens) :
            /\ pc = "returned"
            /\ Has(analyzed_tokens[n].data, "social_media_status")

\* a call of verify_contract that received an answer
ContractStep ==
    /\ pc = "contract"
    /\ queries' # queries

\* C10: the decision table of verify_contract, for every answer of the
\* anti-rug service: the returned value (true: the loop goes on to
\* check_social_media, false: to the next coin) and the blacklist after the
\* call; the row that appends the record's developer is stated for the
\* records that carry one.
C10_ContractDecisionTable ==
    [][ContractStep =>
          LET ok == response'.status_code = 200
              good == Has(response'.json, "status")
                          /\ response'.json.status = "Good"
              bundle == Has(response'.json, "isBundledSupply")
                          /\ response'.json.isBundledSupply
              true == pc' = "social" /\ k' = k
              false == pc' = "dex" /\ k' = k + 1
          IN  /\ ~ok => false /\ blacklist' = blacklist
              /\ (ok /\ ~good) => false /\ blacklist' = blacklist
              /\ (ok /\ good /\ bundle /\ Has(token_data, "developer")) =>
                    /\ false
                    /\ blacklist' =
                         [memecoins |-> blacklist.memecoins \o <<token_data.symbol>>,
                          developers |-> blacklist.developers
                                           \o <<token_data.developer>>]
              /\ (ok /\ good /\ ~bundle) => true /\ blacklist' = blacklist]_vars

\* verify_contract has blacklisted a symbol and a developer
C10_Witness ==
    /\ bundled # {}
    /\ pc = "dex"
    /\ Len(blacklist.memecoins) = Len(seed.memecoins) + 1
    /\ Len(blacklist.developers) = Len(seed.developers) + 1

\* C11: when the listing request is answered with a non-success status,
\* run() raises at once: no request was issued for a coin, the blacklist and
\* coins_data are as before, and from then on nothing happens: run() returns
\* nothing and filtered_coins.csv is not written.
C11_SourceFailureAborts ==
    [][/\ (pc = "start" /\ response'.status_code # 200)
            => /\ pc' = "raised"
               /\ error' = "Exception"
               /\ queries' = <<>>
               /\ csv' = <<>>
               /\ UNCHANGED <<blacklist, coins_data, migrated_coins,
                              filtered_tokens, analyzed_tokens>>
       /\ pc = "raised" => UNCHANGED vars]_vars

\* the listing request failed and run() raised
C11_Witness ==
    /\ pc = "raised"
    /\ error = "Exception"
    /\ response.status_code = 500
    /\ csv = <<>>

C13_VolumeStrategiesSubstitutable ==
    [][(/\ pc = "volume"
        /\ Has(token_data, "symbol")
        /\ Has(token_data, "id"))
          => /\ pc' \in {"contract", "dex"}
             /\ error' = NoError]_vars

\* C14: a second call of run() against the same snapshot returns what the
\* first call returned, the same records in the same order.
C14_RerunIdempotent ==
    (run = 2 /\ pc = "returned") => analyzed_tokens = first_result

IsPrefix(a, b) == Len(a) <= Len(b) /\ SubSeq(b, 1, Len(a)) = a

\* C15: the blacklist only grows during a run.  In every state both lists
\* start with the configured seed, and every step leaves each list as it was
\* or extends it at the end: no entry is removed or replaced.
C15_BlacklistGrows ==
    /\ [](/\ IsPrefix(seed.memecoins, blacklist.memecoins)
          /\ IsPrefix(seed.developers, blacklist.developers))
    /\ [][/\ IsPrefix(blacklist.memecoins, blacklist'.memecoins)
          /\ IsPrefix(blacklist.developers, blacklist'.developers)]_vars

\* a run whose blacklist held a seed entry and has gained an entry twice
C15_Witness ==
    /\ seed.memecoins # <<>>
    /\ Len(blacklist.memecoins) = Len(seed.memecoins) + 2
    /\ Len(blacklist.developers) = Len(seed.developers) + 2

(* The stage-at-a-time order over a snapshot: every stage runs over all   *)
(* the candidates the stage before it left, and only then the next stage  *)
(* starts.  The stages are the methods of CoinFilter; the market stage is *)
(* over before the contract stage writes, so it reads the seed.           *)

\* the token record the snapshot holds for the coin at position i
TokenOf(i) == snapshot.token[i].json

\* filter_dexscreener_data under the blacklist b: its conditions on the
\* record (the empty address is on no blacklist) and the developer test
MarketPassUnder(i, b) ==
    /\ filter_dexscreener_data(TokenOf(i), "", snapshot.clock[i]).ret
    /\ ~In(coins_data[i].developer, b.developers)

BatchTokens ==
    SelectSeq(migrated_coins, LAMBDA i : snapshot.token[i].status_code = 200)

BatchMarket == SelectSeq(BatchTokens, LAMBDA i : MarketPassUnder(i, seed))

BatchVolume ==
    SelectSeq(BatchMarket,
              LAMBDA i : verify_volume(TokenOf(i), snapshot.volume[i]).ret)

\* the blacklist after the contract stage has gone through cands, from b
RECURSIVE BatchBlacklistFrom(_, _)
BatchBlacklistFrom(cands, b) ==
    IF cands = <<>> THEN b
    ELSE LET i == Head(cands)
         IN  BatchBlacklistFrom(Tail(cands),
                IF SawBundled(snapshot.rug[i])
                THEN [memecoins |-> Append(b.memecoins, TokenOf(i).symbol),
                      developers |-> Append(b.developers, TokenOf(i).developer)]
                ELSE b)

BatchBlacklist == BatchBlacklistFrom(BatchVolume, seed)

BatchContract ==
    SelectSeq(BatchVolume,
              LAMBDA i : verify_contract(TokenOf(i), snapshot.rug[i]).ret)

BatchFiltered ==
    [n \in 1 .. Len(BatchContract) |->
        LET i == BatchContract[n]
        IN  [coin |-> i,
             data |-> With(TokenOf(i), "social_media_status",
                           check_social_media(coins_data[i].symbol,
                                              snapshot.score[i]))]]

BatchAnalyzed ==
    SelectSeq(BatchFiltered,
              LAMBDA e : /\ snapshot.holders[e.coin].status_code = 200
                         /\ evaluate_holders(snapshot.holders[e.coin].json).ret)

\* the first call of run() has returned
FirstRunReturned == snapshot.fixed /\ run = 1 /\ pc = "returned"

NoLaterSameDeveloper ==
    \A i \in bundled : \A n \in 1 .. Len(migrated_coins) :
        migrated_coins[n] > i
            => coins_data[migrated_coins[n]].developer # TokenOf(i).developer

MarketFields == {"pairAge", "oneHourTxns", "fiveMinTxns"}

\* C17: for a coin with a developer, the market filter passes the record
\* exactly if pairAge, oneHourTxns and fiveMinTxns are all present, the pair
\* is young enough, both transaction counts reach their thresholds and the
\* developer is not blacklisted; a record that lacks one of the three fields
\* is dropped and the loop goes on without an exception.  Thresholds of 0
\* included.
C17_MarketFilterFailsClosed ==
    [][(pc = "market" /\ Has(coin, "developer"))
          => /\ (\E f \in MarketFields : ~Has(token_data, f))
                 => (pc' = "dex" /\ k' = k + 1 /\ error' = NoError)
             /\ (pc' = "volume")
                 <=> /\ \A f \in MarketFields : Has(token_data, f)
                     /\ token_data.pairAge.wellformed
                     /\ now' - token_data.pairAge.hour <= filters.pair_age_hours
                     /\ token_data.oneHourTxns >= filters.min_1h_txns
                     /\ token_data.fiveMinTxns >= filters.min_5m_txns
                     /\ ~In(coin.developer, blacklist.developers)]_vars

\* the services in the order a candidate meets them
ServiceOrder == <<"token", "volume", "rug", "social", "holders">>

\* the step asks service of the coin at position i, and asks nothing else
Asks(i, service) ==
    queries' = [queries EXCEPT ![i] = Append(@, service)]

\* C18: a candidate is asked about in the order token detail, volume,
\* anti-rug, sentiment, holders, each service at most once, and a service
\* only after every earlier stage passed: the volume oracle only for a
\* record the market filter passed, the anti-rug service only after a valid
\* volume, the sentiment service only after a "Good" answer without bundled
\* supply, the holder service only for an entry of filtered_tokens.  A step
\* that drops a candidate goes on to the next one, and the blacklist is
\* written in the contract stage only.
C18_FirstFailureIsFinal ==
    /\ [](\A i \in DOMAIN queries :
            /\ IsPrefix(queries[i], ServiceOrder)
            /\ In("volume", queries[i]) => i \in accepted
            /\ In("social", queries[i]) => In(i, CoinsOf(filtered_tokens)))
    /\ [][/\ (queries' # queries /\ pc # "start")
                => \/ pc = "dex" /\ Asks(pos, "token")
                   \/ pc = "volume" /\ Asks(pos, "volume")
                   \/ pc = "contract" /\ Asks(pos, "rug")
                   \/ pc = "social" /\ Asks(pos, "social")
                   \/ pc = "gmgn" /\ Asks(filtered_tokens[k].coin, "holders")
          /\ pc' = "market" => (pc = "dex" /\ response'.status_code = 200)
          /\ pc' = "volume" => (pc = "market" /\ pos \in accepted')
          /\ pc' = "contract"
                => /\ pc = "volume" /\ pos \in accepted
                   /\ response'.status_code = 200
                   /\ get(response'.json, "isValid", FALSE)
          /\ pc' = "social"
                => /\ pc = "contract"
                   /\ response'.status_code = 200
                   /\ get(response'.json, "status", "None") = "Good"
                   /\ ~get(response'.json, "isBundledSupply", FALSE)
                   /\ blacklist' = blacklist
          /\ (pc \in {"dex", "market", "volume", "contract"} /\ pc' = "dex")
                => (k' = k + 1 /\ filtered_tokens' = filtered_tokens)
          /\ blacklist' # blacklist => pc = "contract"]_vars

\* a run that dropped its first candidate at the volume oracle, with the
\* blacklist as seeded, and took the second through all five services
C18_Witness ==
    /\ pc = "returned"
    /\ Len(coins_data) = 2
    /\ queries[1] = <<"token", "volume">>
    /\ queries[2] = ServiceOrder
    /\ blacklist = seed

\* C19: blacklist entries bind forward only.  No step takes an entry out of
\* filtered_tokens, whatever the blacklist has gained since it was appended,
\* and when run() returns every entry has been put to the holder service;
\* and a candidate is appended only while neither its symbol nor its
\* developer is on the blacklist, so an entry is in force for every
\* candidate processed after the one that caused it.
C19_ForwardOnly ==
    [][/\ IsPrefix(filtered_tokens, filtered_tokens')
       /\ (pc = "gmgn" /\ pc' = "returned")
             => \A n \in 1 .. Len(filtered_tokens) :
                   In("holders", queries[filtered_tokens[n].coin])
       /\ filtered_tokens' # filtered_tokens
             => /\ ~In(coin.symbol, blacklist.memecoins)
                /\ ~In(coin.developer, blacklist.developers)]_vars

\* C20: the blacklist is written by verify_contract only.  A step that
\* changes it is the contract step of a candidate that passed the market
\* filter and the volume oracle and whose anti-rug answer is a success with
\* status "Good" and isBundledSupply; what it adds is the symbol of the
\* candidate's record and, unless the record has none, its developer.  So
\* the entries beyond the seed are as many as the bundled detections, and
\* once the holder stage has started the blacklist changes no more.
C20_OnlyContractWrites ==
    /\ [](/\ Len(blacklist.memecoins)
                = Len(seed.memecoins) + Cardinality(bundled)
          /\ Len(blacklist.developers)
                <= Len(seed.developers) + Cardinality(bundled)
          /\ bundled \subseteq accepted)
    /\ [][/\ blacklist' # blacklist
                => /\ pc = "contract"
                   /\ pos \in accepted
                   /\ queries[pos] = <<"token", "volume">>
                   /\ SawBundled(response')
                   /\ bundled' = bundled \cup {pos}
                   /\ blacklist'.memecoins
                         = Append(blacklist.memecoins, token_data.symbol)
                   /\ blacklist'.developers
                         = IF Has(token_data, "developer")
                           THEN Append(blacklist.developers,
                                       token_data.developer)
                           ELSE blacklist.developers
          /\ pc \in {"start", "dex", "market", "volume", "social", "gmgn",
                     "returned", "exited", "raised"}
                => blacklist' = blacklist]_vars

\* the holder stage at work on a survivor, the blacklist having gained the
\* symbol and the developer of an earlier candidate
C20_Witness ==
    /\ pc = "gmgn"
    /\ bundled = {1}
    /\ CoinsOf(filtered_tokens) = <<2>>
    /\ blacklist.memecoins = Append(seed.memecoins, coins_data[1].symbol)
    /\ Len(blacklist.developers) = Len(seed.developers) + 1

====
